---- MODULE Spec2Model ----
(***************************************************************************)
(* A model of visual-dc: the dc command tokeniser (CommandSequence), the   *)
(* Stack with its run_commands executor, the built-in command handlers and *)
(* the command-line entry point main() of src/dcparse.py.                  *)
(*                                                                         *)
(* Texts are sequences of one-character strings.  Python exceptions are    *)
(* modelled as an error-kind field: a handler returns the machine it left  *)
(* behind together with the name of the exception it raised ("" for none). *)
(***************************************************************************)
EXTENDS Integers, Sequences, FiniteSets, TLC

(***************************************************************************)
(* Bounds of the explored inputs.                                          *)
(***************************************************************************)
\* longest standard-input text given to main()
MaxLen == 4
\* longest program text the library caller runs
MaxLibLen == 4
\* how many values a caller pushes onto a Stack before a run
MaxDepth == 2
\* how many run_commands calls the library harness makes on one Stack
MaxRuns == 2
\* how many extra (regex, function) entries are registered
MaxExtra == 1
\* longest text tokenised under an extended registry
MaxRegLen == 3
\* the deepest stack the rotation programs start from
MaxRotDepth == 3
\* the largest count the rotation programs give to R
MaxRotCount == 3
\* the longest text in the front end's buffer
MaxUiLen == 3
\* how many edits the front end handles
MaxEdits == 2
\* longest text tokenised with the built-in commands alone
MaxTokLen == 3

\* characters of the texts given to main()
MainAlphabet == {"1", "2", ".", " ", "f", "+", "r", "|", "?"}
\* characters of the programs the library caller runs: programs that set and
\* read the precision, and programs that rotate the stack
PrecisionAlphabet == {"2", "k", "K"}
RotateAlphabet == {"0", "2", "R"}
\* characters of the texts typed into the front end
UiAlphabet == {"1", "d", "+", "?"}
\* characters of the texts tokenised under an extended registry
RegAlphabet == {"1", ".", "_", " ", "\n", "#", "[", "]", "f", "?"}
\* characters of the texts tokenised with the built-in commands alone
TokAlphabet == {"1", "_", "\n", "#", "[", "]", "?"}

Texts(alphabet, n) == UNION {[1..k -> alphabet] : k \in 0..n}

(***************************************************************************)
(* Character classes of Python's re module, restricted to ASCII.           *)
(***************************************************************************)
Whitespace == {" ", "\n", "\t", "\r"}
Digits == {"0", "1", "2", "3", "4", "5", "6", "7", "8", "9"}
ConstantChars == Digits \cup {"."}

\* s[i..], the slice cmd_text[str_position:] with str_position = i - 1
Suffix(s, i) == SubSeq(s, i, Len(s))

RECURSIVE RunLength(_, _, _)
\* how many consecutive characters of s, from index i on, satisfy the class
\* given as the set of characters it REJECTS when negate, ACCEPTS otherwise
RunLength(s, i, cls) ==
    IF i > Len(s) THEN 0
    ELSE IF (IF cls.negate THEN s[i] \notin cls.set ELSE s[i] \in cls.set)
         THEN 1 + RunLength(s, i + 1, cls)
         ELSE 0

\* index of the first "]" of s at or after index i, or 0
FirstClose(s, i) ==
    IF \E j \in i..Len(s) : s[j] = "]"
    THEN CHOOSE j \in i..Len(s) : s[j] = "]" /\ \A h \in i..(j - 1) : s[h] # "]"
    ELSE 0

(***************************************************************************)
(* Compiled regular expressions.  Every regex of the program is one of:    *)
(*   one     [set]            one character of set                         *)
(*   many    opt?[set]+       an optional prefix character of opt, then    *)
(*                            one or more characters of set, greedy        *)
(*   comment #.*$             (MULTILINE: "." stops at a newline, "$"      *)
(*                            matches before a newline or at the end)      *)
(*   string  \[[^]]+?\]       "[", one or more non-"]" characters, "]"     *)
(***************************************************************************)
One(set) == [kind |-> "one", opt |-> {}, set |-> set]
Many(opt, set) == [kind |-> "many", opt |-> opt, set |-> set]
CommentRegex == [kind |-> "comment", opt |-> {}, set |-> {"#"}]
StringRegex == [kind |-> "string", opt |-> {}, set |-> {"[", "]"}]

\* a matcher whose repetition may be empty: "_?[0-9.]*" for "_?[0-9.]+"
MatchEnd_nullable(regex, s) ==
    IF Len(s) = 0 THEN 0
    ELSE CASE regex.kind = "one" ->
                IF s[1] \in regex.set THEN 1 ELSE -1
           [] regex.kind = "many" ->
                LET with == RunLength(s, 2, [negate |-> FALSE, set |-> regex.set])
                    without == RunLength(s, 1, [negate |-> FALSE, set |-> regex.set])
                IN  IF s[1] \in regex.opt THEN 1 + with ELSE without
           [] regex.kind = "comment" ->
                IF s[1] = "#"
                THEN 1 + RunLength(s, 2, [negate |-> TRUE, set |-> {"\n"}])
                ELSE -1
           [] regex.kind = "string" ->
                LET close == FirstClose(s, 2)
                IN  IF s[1] = "[" /\ close >= 3 THEN close ELSE -1

\* regex.match(s).end(), or -1 when regex.match(s) is None
MatchEnd(regex, s) ==
    IF Len(s) = 0 THEN -1
    ELSE CASE regex.kind = "one" ->
                IF s[1] \in regex.set THEN 1 ELSE -1
           [] regex.kind = "many" ->
                LET with == RunLength(s, 2, [negate |-> FALSE, set |-> regex.set])
                    without == RunLength(s, 1, [negate |-> FALSE, set |-> regex.set])
                IN  IF s[1] \in regex.opt /\ with >= 1 THEN 1 + with
                    ELSE IF without >= 1 THEN without
                    ELSE -1
           [] regex.kind = "comment" ->
                IF s[1] = "#"
                THEN 1 + RunLength(s, 2, [negate |-> TRUE, set |-> {"\n"}])
                ELSE -1
           [] regex.kind = "string" ->
                LET close == FirstClose(s, 2)
                IN  IF s[1] = "[" /\ close >= 3 THEN close ELSE -1

(***************************************************************************)
(* CommandSequence._registered_commands after the module is imported: the  *)
(* @register_command decorators run top to bottom, each appending.  An     *)
(* entry holds the regex by its pattern text and the function by its name. *)
(***************************************************************************)
Entry(regex, func) == [regex |-> regex, func |-> func]

\* re.compile(regex, re.MULTILINE) for the patterns of the program
compile(pattern) ==
    CASE pattern = "\\s" -> One(Whitespace)
      [] pattern = "#.*$" -> CommentRegex
      [] pattern = "_?[0-9.]+" -> Many({"_"}, ConstantChars)
      [] pattern = "\\[[^]]+?\\]" -> StringRegex
      [] pattern = "[IO]" -> One({"I", "O"})
      [] pattern = "K" -> One({"K"})
      [] pattern = "k" -> One({"k"})
      [] pattern = "f" -> One({"f"})
      [] pattern = "r" -> One({"r"})
      [] pattern = "R" -> One({"R"})
      [] pattern = "c" -> One({"c"})
      [] pattern = "d" -> One({"d"})
      [] pattern = "z" -> One({"z"})
      [] pattern = "v" -> One({"v"})
      [] pattern = "[-+*/^]" -> One({"-", "+", "*", "/", "^"})
      [] pattern = "%" -> One({"%"})
      [] pattern = "~" -> One({"~"})
      [] pattern = "\\|" -> One({"|"})
      [] pattern = " +" -> Many({}, {" "})
      [] pattern = "[?1]+" -> Many({}, {"?", "1"})

\* regex.match(s) for a registered regex: the length matched, or -1
Match(pattern, s) == MatchEnd(compile(pattern), s)

\* CommandSequence.register_command: append (compiled regex, function)
register_command_append(commandList, regex, function) ==
    Append(commandList, Entry(regex, function))

BuiltinCommands ==
    << Entry("\\s", "whitespace"),
       Entry("#.*$", "comment"),
       Entry("_?[0-9.]+", "constant"),
       Entry("\\[[^]]+?\\]", "string"),
       Entry("[IO]", "get_radix"),
       Entry("K", "get_precision"),
       Entry("k", "set_precision"),
       Entry("f", "print_stack"),
       Entry("r", "swap"),
       Entry("R", "rotate"),
       Entry("c", "clear"),
       Entry("d", "duplicate"),
       Entry("z", "stack_depth"),
       Entry("v", "square_root"),
       Entry("[-+*/^]", "common_numerical"),
       Entry("%", "remainder"),
       Entry("~", "div_mod"),
       Entry("\\|", "mod_exponentiation") >>

RECURSIVE FirstMatchFrom(_, _, _)
\* the for/break loop of tokenise: the index of the first entry, from i on,
\* whose regex matches s; 0 when the loop runs to its else clause
FirstMatchFrom(commandList, s, i) ==
    IF i > Len(commandList) THEN 0
    ELSE IF Match(commandList[i].regex, s) >= 0 THEN i
    ELSE FirstMatchFrom(commandList, s, i + 1)

FirstMatch(commandList, s) == FirstMatchFrom(commandList, s, 1)

(***************************************************************************)
(* Values.  The stack holds Python objects: decimal.Decimal (sign,         *)
(* coefficient, exponent), int (pushed by K and z), and strings (the       *)
(* str subclass DecimalMultipliableString pushed by a [..] literal, or a   *)
(* plain str produced by str operations).                                  *)
(***************************************************************************)
Dec(sign, coeff, exp) ==
    [t |-> "Decimal", sign |-> sign, int |-> coeff, exp |-> exp, s |-> <<>>]
PyInt(n) ==
    [t |-> "int", sign |-> IF n < 0 THEN 1 ELSE 0,
     int |-> IF n < 0 THEN -n ELSE n, exp |-> 0, s |-> <<>>]
PyStr(type, chars) ==
    [t |-> type, sign |-> 0, int |-> 0, exp |-> 0, s |-> chars]

IsNumber(v) == v.t \in {"Decimal", "int"}
IsString(v) == v.t \in {"DecimalMultipliableString", "str"}

RECURSIVE Pow10(_)
Pow10(k) == IF k <= 0 THEN 1 ELSE 10 * Pow10(k - 1)

RECURSIVE NumDigits(_)
\* len(str(n)) for n >= 0
NumDigits(n) == IF n < 10 THEN 1 ELSE 1 + NumDigits(n \div 10)

\* Decimal(n) for a Python int n: exact
DecOfInt(v) == Dec(v.sign, v.int, 0)

\* the operand as a Decimal (Decimal._convert_other accepts int)
AsDec(v) == IF v.t = "int" THEN DecOfInt(v) ELSE v

\* Decimal._fix under ROUND_HALF_EVEN: round the coefficient to prec digits
Fix(d, prec) ==
    LET digits == NumDigits(d.int)
        drop == digits - prec
    IN  IF d.int = 0 \/ drop <= 0 THEN d
        ELSE LET unit == Pow10(drop)
                 q == d.int \div unit
                 r == d.int % unit
                 half == 5 * Pow10(drop - 1)
                 up == r > half \/ (r = half /\ q % 2 = 1)
                 q1 == IF up THEN q + 1 ELSE q
             IN  IF NumDigits(q1) > prec
                 THEN Dec(d.sign, q1 \div 10, d.exp + drop + 1)
                 ELSE Dec(d.sign, q1, d.exp + drop)

\* int(v): truncation toward zero of a Decimal, the value of an int
IntMagnitude(v) ==
    IF v.exp >= 0 THEN v.int * Pow10(v.exp) ELSE v.int \div Pow10(-v.exp)
ToInt(v) == IF v.sign = 1 THEN -IntMagnitude(v) ELSE IntMagnitude(v)

\* the numeric value of an integral Number, for comparisons
IsIntegral(v) == v.exp >= 0 \/ v.int % Pow10(-v.exp) = 0
NumEq(v, n) == IsNumber(v) /\ IsIntegral(v) /\ ToInt(v) = n

DigitValue(c) ==
    CASE c = "0" -> 0 [] c = "1" -> 1 [] c = "2" -> 2 [] c = "3" -> 3
      [] c = "4" -> 4 [] c = "5" -> 5 [] c = "6" -> 6 [] c = "7" -> 7
      [] c = "8" -> 8 [] c = "9" -> 9

RECURSIVE DigitsValue(_, _)
\* int(digits) read left to right, acc the value of the digits already read
DigitsValue(chars, acc) ==
    IF chars = <<>> THEN acc
    ELSE DigitsValue(Tail(chars), 10 * acc + DigitValue(Head(chars)))

\* Context.create_decimal(text) for a text of "-", digits and ".":
\* the Decimal parser accepts sign? (digits [. digits*] | . digits), anything
\* else signals ConversionSyntax, an InvalidOperation the context traps;
\* the parsed value is then rounded to the context precision
create_decimal(text, prec) ==
    LET neg == Len(text) >= 1 /\ text[1] = "-"
        body == IF neg THEN Tail(text) ELSE text
        dots == {i \in 1..Len(body) : body[i] = "."}
        digs == SelectSeq(body, LAMBDA c : c \in Digits)
        dot == IF dots = {} THEN Len(body) + 1 ELSE CHOOSE i \in dots : TRUE
        valid == /\ Cardinality(dots) <= 1
                 /\ Len(digs) >= 1
                 /\ \A i \in 1..Len(body) : body[i] \in ConstantChars
    IN  IF ~valid THEN [val |-> Dec(0, 0, 0), err |-> "InvalidOperation"]
        ELSE [val |-> Fix(Dec(IF neg THEN 1 ELSE 0,
                                  DigitsValue(digs, 0),
                                  IF dots = {} THEN 0 ELSE -(Len(body) - dot)),
                              prec),
              err |-> ""]

\* cmd_text.replace('_', '-')
ReplaceUnderscore(text) ==
    [i \in 1..Len(text) |-> IF text[i] = "_" THEN "-" ELSE text[i]]

(***************************************************************************)
(* Arithmetic of the operator module on the stack's values.  Each returns  *)
(* [val, err]: err names the exception raised, "" for none.  "Unmodelled"  *)
(* marks operand combinations whose result this model does not compute     *)
(* (inexact quotients, roots and powers, floats); NoUnmodelled checks that *)
(* no explored run reaches one.                                            *)
(***************************************************************************)
Ok(v) == [val |-> v, err |-> ""]
Raise(kind) == [val |-> Dec(0, 0, 0), err |-> kind]

Signed(v) == IF v.sign = 1 THEN -v.int ELSE v.int
Min(a, b) == IF a <= b THEN a ELSE b
Abs(n) == IF n < 0 THEN -n ELSE n

\* the signed coefficient of Decimal d written with exponent e <= d.exp
Aligned(d, e) == Signed(d) * Pow10(d.exp - e)

\* Decimal.__add__ then _fix (rounding is not ROUND_FLOOR: an exact zero
\* sum is +0 unless both operands are -0)
DecAdd(a, b, prec) ==
    LET e == Min(a.exp, b.exp)
        sum == Aligned(a, e) + Aligned(b, e)
    IN  IF a.int = 0 /\ b.int = 0 THEN Dec(Min(a.sign, b.sign), 0, e)
        ELSE Fix(Dec(IF sum < 0 THEN 1 ELSE 0, Abs(sum), e), prec)

DecNeg(a) == Dec(1 - a.sign, a.int, a.exp)

\* Decimal.__mul__ then _fix
DecMul(a, b, prec) ==
    Fix(Dec((a.sign + b.sign) % 2, a.int * b.int, a.exp + b.exp), prec)

RECURSIVE Replicate(_, _)
\* n * chars for a Python int n (empty for n <= 0)
Replicate(chars, n) == IF n <= 0 THEN <<>> ELSE chars \o Replicate(chars, n - 1)

\* operator.add(a, b)
op_add(a, b, prec) ==
    IF a.t = "int" /\ b.t = "int" THEN Ok(PyInt(ToInt(a) + ToInt(b)))
    ELSE IF IsNumber(a) /\ IsNumber(b) THEN Ok(DecAdd(AsDec(a), AsDec(b), prec))
    ELSE IF IsString(a) /\ IsString(b) THEN Ok(PyStr("str", a.s \o b.s))
    ELSE Raise("TypeError")

\* operator.sub(a, b)
op_sub(a, b, prec) ==
    IF a.t = "int" /\ b.t = "int" THEN Ok(PyInt(ToInt(a) - ToInt(b)))
    ELSE IF IsNumber(a) /\ IsNumber(b)
         THEN Ok(DecAdd(AsDec(a), DecNeg(AsDec(b)), prec))
    ELSE Raise("TypeError")

\* operator.mul(a, b); DecimalMultipliableString.__mul__/__rmul__ replicate
\* by int(Decimal), str.__mul__ by an int only, and both return a plain str
op_mul(a, b, prec) ==
    IF a.t = "int" /\ b.t = "int" THEN Ok(PyInt(ToInt(a) * ToInt(b)))
    ELSE IF IsNumber(a) /\ IsNumber(b) THEN Ok(DecMul(AsDec(a), AsDec(b), prec))
    ELSE IF a.t = "DecimalMultipliableString" /\ IsNumber(b)
         THEN Ok(PyStr("str", Replicate(a.s, ToInt(b))))
    ELSE IF b.t = "DecimalMultipliableString" /\ IsNumber(a)
         THEN Ok(PyStr("str", Replicate(b.s, ToInt(a))))
    ELSE IF a.t = "str" /\ b.t = "int" THEN Ok(PyStr("str", Replicate(a.s, ToInt(b))))
    ELSE IF b.t = "str" /\ a.t = "int" THEN Ok(PyStr("str", Replicate(b.s, ToInt(a))))
    ELSE Raise("TypeError")

\* operator.truediv(a, b): x / 0 is DivisionByZero, 0 / 0 DivisionUndefined
\* (an InvalidOperation); a quotient whose coefficient divides exactly at
\* the ideal exponent is exact
op_truediv(a, b, prec) ==
    IF a.t = "int" /\ b.t = "int"
    THEN IF b.int = 0 THEN Raise("ZeroDivisionError") ELSE Raise("Unmodelled")
    ELSE IF IsNumber(a) /\ IsNumber(b)
         THEN IF b.int = 0
              THEN IF a.int = 0 THEN Raise("InvalidOperation")
                   ELSE Raise("DivisionByZero")
              ELSE IF a.int % b.int = 0
                   THEN Ok(Fix(Dec((a.sign + b.sign) % 2, a.int \div b.int,
                                   a.exp - b.exp), prec))
                   ELSE Raise("Unmodelled")
    ELSE Raise("TypeError")

RECURSIVE IntPow(_, _)
IntPow(base, n) == IF n <= 0 THEN 1 ELSE base * IntPow(base, n - 1)

\* operator.pow(a, b) for a non-negative integral exponent whose exact
\* result fits the precision
op_pow(a, b, prec) ==
    IF IsNumber(a) /\ IsNumber(b)
    THEN IF a.int = 0 /\ b.int = 0
         THEN IF a.t = "int" /\ b.t = "int" THEN Ok(PyInt(1))
              ELSE Raise("InvalidOperation")
         ELSE IF b.sign = 1 \/ ~IsIntegral(b) \/ a.int = 0 THEN Raise("Unmodelled")
         ELSE IF a.t = "int" /\ b.t = "int"
              THEN Ok(PyInt(IntPow(ToInt(a), ToInt(b))))
         ELSE LET n == ToInt(b)
                  c == IntPow(a.int, n)
              IN  IF NumDigits(c) <= prec
                  THEN Ok(Dec(IF n % 2 = 1 THEN a.sign ELSE 0, c, a.exp * n))
                  ELSE Raise("Unmodelled")
    ELSE Raise("TypeError")

\* Decimal._divide for operands of exponent 0: integer quotient toward zero
\* and remainder with the sign of the dividend; a zero divisor is an
\* InvalidOperation, as is a quotient of more than prec digits
DecDivide(a, b, prec) ==
    IF b.int = 0 THEN [q |-> Dec(0, 0, 0), r |-> Dec(0, 0, 0), err |-> "InvalidOperation"]
    ELSE IF a.exp # 0 \/ b.exp # 0
         THEN [q |-> Dec(0, 0, 0), r |-> Dec(0, 0, 0), err |-> "Unmodelled"]
    ELSE IF NumDigits(a.int \div b.int) > prec
         THEN [q |-> Dec(0, 0, 0), r |-> Dec(0, 0, 0), err |-> "InvalidOperation"]
    ELSE [q |-> Dec((a.sign + b.sign) % 2, a.int \div b.int, 0),
          r |-> Fix(Dec(a.sign, a.int % b.int, 0), prec),
          err |-> ""]

\* numerator % denominator
op_mod(a, b, prec) ==
    IF a.t = "int" /\ b.t = "int"
    THEN IF b.int = 0 THEN Raise("ZeroDivisionError")
         ELSE IF b.sign = 1 THEN Raise("Unmodelled")
         ELSE Ok(PyInt(ToInt(a) - ToInt(b) * (ToInt(a) \div ToInt(b))))
    ELSE IF IsNumber(a) /\ IsNumber(b)
         THEN LET d == DecDivide(AsDec(a), AsDec(b), prec)
              IN  IF d.err # "" THEN Raise(d.err) ELSE Ok(d.r)
    ELSE IF IsString(a) THEN Raise("Unmodelled")
    ELSE Raise("TypeError")

\* pow(base, exponent, modulus) of three Decimals (Decimal._power_modulo)
pow_mod(base, exponent, modulus, prec) ==
    IF base.t = "Decimal" /\ IsNumber(exponent) /\ IsNumber(modulus)
    THEN IF \/ ~IsIntegral(base) \/ ~IsIntegral(exponent) \/ ~IsIntegral(modulus)
            \/ (exponent.sign = 1 /\ exponent.int # 0)
            \/ modulus.int = 0
            \/ NumDigits(modulus.int) + modulus.exp - 1 >= prec
            \/ (exponent.int = 0 /\ base.int = 0)
         THEN Raise("InvalidOperation")
         ELSE LET m == IntMagnitude(modulus)
                  n == IntMagnitude(exponent)
                  RECURSIVE PowMod(_, _)
                  PowMod(b, k) == IF k = 0 THEN 1 % m ELSE (b * PowMod(b, k - 1)) % m
              IN  Ok(Dec(IF n % 2 = 0 THEN 0 ELSE base.sign,
                         PowMod(IntMagnitude(base) % m, n), 0))
    ELSE Raise("Unmodelled")

\* Decimal.sqrt(): only Decimal has the method; a negative operand is an
\* InvalidOperation; the root of a perfect square of exponent 0 is exact
op_sqrt(v, prec) ==
    IF v.t # "Decimal" THEN Raise("AttributeError")
    ELSE IF v.int = 0 THEN IF v.exp = 0 THEN Ok(v) ELSE Raise("Unmodelled")
    ELSE IF v.sign = 1 THEN Raise("InvalidOperation")
    ELSE IF v.exp = 0 /\ \E r \in 1..v.int : r * r = v.int
         THEN Ok(Fix(Dec(0, CHOOSE r \in 1..v.int : r * r = v.int, 0), prec))
         ELSE Raise("Unmodelled")

\* int(v) as the handlers call it on a popped value
py_int(v) ==
    IF IsNumber(v) THEN [val |-> ToInt(v), err |-> ""]
    ELSE [val |-> 0, err |-> "Unmodelled"]

(***************************************************************************)
(* flip (lines 12-16) and the Stack's list operations (lines 43-63).       *)
(***************************************************************************)
\* a flip that hands the arguments on in the order it got them
flip_unflipped(x, y) == [x |-> x, y |-> y]

\* flipped(x, y) calls function(y, x): the arguments as function gets them
flip(x, y) == [x |-> y, y |-> x]

Reverse(seq) == [i \in 1..Len(seq) |-> seq[Len(seq) + 1 - i]]

\* Stack.push(*values): list.extend, in argument order
push(stack, values) == stack \o values

\* a pop that takes the oldest value, as a queue would
pop_oldest(stack) ==
    IF stack = <<>>
    THEN [stack |-> stack, val |-> Dec(0, 0, 0), err |-> "IndexError"]
    ELSE [stack |-> Tail(stack), val |-> Head(stack), err |-> ""]

\* Stack.pop(): list.pop(), IndexError on an empty list
pop(stack) ==
    IF stack = <<>>
    THEN [stack |-> stack, val |-> Dec(0, 0, 0), err |-> "IndexError"]
    ELSE [stack |-> SubSeq(stack, 1, Len(stack) - 1),
          val |-> stack[Len(stack)], err |-> ""]

RECURSIVE pop_many_from(_, _, _)
\* the generator of pop_many feeding tuple(): vals are the values popped so
\* far; an IndexError leaves the stack without the values already popped
pop_many_from(stack, num, vals) ==
    IF num <= 0 THEN [stack |-> stack, vals |-> vals, err |-> ""]
    ELSE LET p == pop(stack)
         IN  IF p.err # "" THEN [stack |-> p.stack, vals |-> vals, err |-> p.err]
             ELSE pop_many_from(p.stack, num - 1, Append(vals, p.val))

\* Stack.pop_many(num)
pop_many(stack, num) == pop_many_from(stack, num, <<>>)

\* Stack.clear()
Stack_clear(stack) == <<>>

(***************************************************************************)
(* The command handlers (lines 142-276).  A handler takes the matched text *)
(* and the machine m = [stack, prec, out, err]: the Stack's list, the      *)
(* precision of decimal.getcontext(), what has been printed, and the       *)
(* exception raised.  It returns the machine it leaves behind.             *)
(***************************************************************************)
\* a failure that puts back what the handler had popped
Failed_restoring(m, stack, kind) == [m EXCEPT !.err = kind]

\* the machine a handler leaves when it raises kind with this stack
Failed(m, stack, kind) == [m EXCEPT !.stack = stack, !.err = kind]

\* whitespace(*_): no-op
whitespace(cmd_text, m) == m

\* comment(*_): no-op
comment(cmd_text, m) == m

\* constant: push create_decimal(cmd_text.replace('_', '-'))
constant(cmd_text, m) ==
    LET d == create_decimal(ReplaceUnderscore(cmd_text), m.prec)
    IN  IF d.err # "" THEN Failed(m, m.stack, d.err)
        ELSE [m EXCEPT !.stack = push(m.stack, <<d.val>>)]

\* string: push DecimalMultipliableString(cmd_text[1:-1])
string(cmd_text, m) ==
    [m EXCEPT !.stack =
        push(m.stack, <<PyStr("DecimalMultipliableString",
                              SubSeq(cmd_text, 2, Len(cmd_text) - 1))>>)]

\* get_radix: push decimal.getcontext().radix(), which is Decimal(10)
get_radix(cmd_text, m) == [m EXCEPT !.stack = push(m.stack, <<Dec(0, 10, 0)>>)]

\* decimal.DefaultContext.prec, the precision of a context nobody changed
DefaultPrec == 28

\* a K that reads the precision of an untouched context
get_precision_default(cmd_text, m) ==
    [m EXCEPT !.stack = push(m.stack, <<PyInt(DefaultPrec)>>)]

\* get_precision: push decimal.getcontext().prec, a Python int
get_precision(cmd_text, m) == [m EXCEPT !.stack = push(m.stack, <<PyInt(m.prec)>>)]

\* a k that takes the nearest valid precision for an invalid one
set_precision_clamped(cmd_text, m) ==
    LET p == pop(m.stack)
        n == py_int(p.val)
    IN  IF p.err # "" THEN Failed(m, p.stack, p.err)
        ELSE IF n.err # "" THEN Failed(m, p.stack, n.err)
        ELSE [m EXCEPT !.stack = p.stack, !.prec = IF n.val < 1 THEN 1 ELSE n.val]

\* set_precision: decimal.getcontext().prec = int(stack.pop()); the setter
\* raises ValueError outside [1, MAX_PREC]
set_precision(cmd_text, m) ==
    LET p == pop(m.stack)
        n == py_int(p.val)
    IN  IF p.err # "" THEN Failed(m, p.stack, p.err)
        ELSE IF n.err # "" THEN Failed(m, p.stack, n.err)
        ELSE IF n.val < 1 THEN Failed(m, p.stack, "ValueError")
        ELSE [m EXCEPT !.stack = p.stack, !.prec = n.val]

\* print_stack: if stack: print(*reversed(stack), sep='\n')
print_stack(cmd_text, m) ==
    IF m.stack # <<>> THEN [m EXCEPT !.out = Append(m.out, Reverse(m.stack))]
    ELSE m

\* swap: stack.push(*stack.pop_many(2))
swap(cmd_text, m) ==
    LET p == pop_many(m.stack, 2)
    IN  IF p.err # "" THEN Failed(m, p.stack, p.err)
        ELSE [m EXCEPT !.stack = push(p.stack, p.vals)]

\* an R that moves the bottom of the group to the top whatever the sign
rotate_one_way(cmd_text, m) ==
    LET p == pop(m.stack)
        n == py_int(p.val)
        num_to_rotate == Min(Abs(n.val), Len(p.stack))
        q == pop_many(p.stack, num_to_rotate)
        elements == Reverse(q.vals)
    IN  IF p.err # "" THEN Failed(m, p.stack, p.err)
        ELSE IF n.err # "" THEN Failed(m, p.stack, n.err)
        ELSE IF q.err # "" THEN Failed(m, q.stack, q.err)
        ELSE IF elements = <<>> THEN Failed(m, q.stack, "IndexError")
        ELSE [m EXCEPT !.stack =
                 push(q.stack, Append(Tail(elements), Head(elements)))]

\* rotate: pop the count, pop min(|count|, depth) values into a deque with
\* the top of the stack on the right, move one element from one end to the
\* other (deque.popleft() and deque.pop() raise IndexError on an empty
\* deque), push the deque back
rotate(cmd_text, m) ==
    LET p == pop(m.stack)
        n == py_int(p.val)
        rotate_down == n.val >= 0
        num_to_rotate == Min(Abs(n.val), Len(p.stack))
        q == pop_many(p.stack, num_to_rotate)
        elements == Reverse(q.vals)
    IN  IF p.err # "" THEN Failed(m, p.stack, p.err)
        ELSE IF n.err # "" THEN Failed(m, p.stack, n.err)
        ELSE IF q.err # "" THEN Failed(m, q.stack, q.err)
        ELSE IF elements = <<>> THEN Failed(m, q.stack, "IndexError")
        ELSE IF rotate_down
             THEN [m EXCEPT !.stack =
                      push(q.stack, Append(Tail(elements), Head(elements)))]
             ELSE [m EXCEPT !.stack =
                      push(q.stack,
                           <<elements[Len(elements)]>>
                               \o SubSeq(elements, 1, Len(elements) - 1))]

\* clear: stack.clear()
clear(cmd_text, m) == [m EXCEPT !.stack = Stack_clear(m.stack)]

\* duplicate: top = stack.pop(); stack.push(top, top)
duplicate(cmd_text, m) ==
    LET p == pop(m.stack)
    IN  IF p.err # "" THEN Failed(m, p.stack, p.err)
        ELSE [m EXCEPT !.stack = push(p.stack, <<p.val, p.val>>)]

\* stack_depth: stack.push(len(stack)), a Python int
stack_depth(cmd_text, m) ==
    [m EXCEPT !.stack = push(m.stack, <<PyInt(Len(m.stack))>>)]

\* square_root: stack.push(stack.pop().sqrt())
square_root(cmd_text, m) ==
    LET p == pop(m.stack)
        r == op_sqrt(p.val, m.prec)
    IN  IF p.err # "" THEN Failed(m, p.stack, p.err)
        ELSE IF r.err # "" THEN Failed(m, p.stack, r.err)
        ELSE [m EXCEPT !.stack = push(p.stack, <<r.val>>)]

\* the ops table of common_numerical
ops(cmd_text, x, y, prec) ==
    CASE cmd_text = <<"+">> -> op_add(x, y, prec)
      [] cmd_text = <<"-">> -> op_sub(x, y, prec)
      [] cmd_text = <<"*">> -> op_mul(x, y, prec)
      [] cmd_text = <<"/">> -> op_truediv(x, y, prec)
      [] cmd_text = <<"^">> -> op_pow(x, y, prec)

\* common_numerical: stack.push(flip(ops[cmd_text])(*stack.pop_many(2)))
common_numerical(cmd_text, m) ==
    LET p == pop_many(m.stack, 2)
        args == flip(p.vals[1], p.vals[2])
        r == ops(cmd_text, args.x, args.y, m.prec)
    IN  IF p.err # "" THEN Failed(m, p.stack, p.err)
        ELSE IF r.err # "" THEN Failed(m, p.stack, r.err)
        ELSE [m EXCEPT !.stack = push(p.stack, <<r.val>>)]

\* remainder: denominator, numerator = stack.pop_many(2)
remainder(cmd_text, m) ==
    LET p == pop_many(m.stack, 2)
        r == op_mod(p.vals[2], p.vals[1], m.prec)
    IN  IF p.err # "" THEN Failed(m, p.stack, p.err)
        ELSE IF r.err # "" THEN Failed(m, p.stack, r.err)
        ELSE [m EXCEPT !.stack = push(p.stack, <<r.val>>)]

\* div_mod: push divmod(numerator, denominator) as quotient, modulus
div_mod(cmd_text, m) ==
    LET p == pop_many(m.stack, 2)
        numerator == p.vals[2]
        denominator == p.vals[1]
        d == IF IsNumber(numerator) /\ IsNumber(denominator)
                  /\ ~(numerator.t = "int" /\ denominator.t = "int")
             THEN DecDivide(AsDec(numerator), AsDec(denominator), m.prec)
             ELSE [q |-> Dec(0, 0, 0), r |-> Dec(0, 0, 0), err |-> "Unmodelled"]
    IN  IF p.err # "" THEN Failed(m, p.stack, p.err)
        ELSE IF d.err # "" THEN Failed(m, p.stack, d.err)
        ELSE [m EXCEPT !.stack = push(p.stack, <<d.q, d.r>>)]

\* mod_exponentiation: modulus, exponent, base = stack.pop_many(3)
mod_exponentiation(cmd_text, m) ==
    LET p == pop_many(m.stack, 3)
        r == pow_mod(p.vals[3], p.vals[2], p.vals[1], m.prec)
    IN  IF p.err # "" THEN Failed(m, p.stack, p.err)
        ELSE IF r.err # "" THEN Failed(m, p.stack, r.err)
        ELSE [m EXCEPT !.stack = push(p.stack, <<r.val>>)]

\* func(text, stack): the call of a registered function by its name
Call(func, cmd_text, m) ==
    CASE func = "whitespace" -> whitespace(cmd_text, m)
      [] func = "comment" -> comment(cmd_text, m)
      [] func = "constant" -> constant(cmd_text, m)
      [] func = "string" -> string(cmd_text, m)
      [] func = "get_radix" -> get_radix(cmd_text, m)
      [] func = "get_precision" -> get_precision(cmd_text, m)
      [] func = "set_precision" -> set_precision(cmd_text, m)
      [] func = "print_stack" -> print_stack(cmd_text, m)
      [] func = "swap" -> swap(cmd_text, m)
      [] func = "rotate" -> rotate(cmd_text, m)
      [] func = "clear" -> clear(cmd_text, m)
      [] func = "duplicate" -> duplicate(cmd_text, m)
      [] func = "stack_depth" -> stack_depth(cmd_text, m)
      [] func = "square_root" -> square_root(cmd_text, m)
      [] func = "common_numerical" -> common_numerical(cmd_text, m)
      [] func = "remainder" -> remainder(cmd_text, m)
      [] func = "div_mod" -> div_mod(cmd_text, m)
      [] func = "mod_exponentiation" -> mod_exponentiation(cmd_text, m)

(***************************************************************************)
(* State.                                                                  *)
(***************************************************************************)
VARIABLES
    _registered_commands, \* CommandSequence._registered_commands
    cmd_text,             \* the text being parsed
    str_position,         \* tokenise: the scan offset
    tokens,               \* tokenise: the (offset, match, func) yielded so far
    commands,             \* CommandSequence.commands, once __init__ has set it
    _stack,               \* Stack._stack, top of the stack on the right
    _context,             \* Stack._context: which context object it is
    contexts,             \* the precision of each decimal context object
    current,              \* which context object decimal.getcontext() returns
    saved,                \* the context localcontext restores on exit
    pc,                   \* where control is
    phase,                \* main: "program" or "dump"; callers: "push" or "pop"
    ip,                   \* run_commands: index of the next partial command
    exc,                  \* the exception raised to the caller
    out,                  \* standard output: one entry per print call
    ret,                  \* main's return value, -1 before it returns
    runs,                 \* how many run_commands calls were made
    calls,                \* history: the token index of every handler call of the run
    entry,                \* history: the precisions when run_commands was entered
    lastk,                \* history: the last successful k command of the run
    prev,                 \* history: the stack before the last handler call
    edits,                \* history: how many edits the front end has handled
    pushed,               \* history: the values a caller pushed, in order
    popped                \* history: the values a caller got back from pop calls

vars == << _registered_commands, cmd_text, str_position, tokens, commands,
           _stack, _context, contexts, current, saved, pc, phase, ip, exc,
           out, ret, runs, calls, entry, lastk, prev, edits, pushed, popped >>

parseVars == << cmd_text, str_position, tokens, commands >>
ctxVars == << _context, contexts, current, saved >>
histVars == << calls, entry, lastk, prev, edits, pushed, popped >>

NoExc == [kind |-> "", arg |-> -1]
NoEntry == [current |-> 0, own |-> 0]
NoK == [set |-> 0, literal |-> -1, readAt |-> 0, below |-> <<>>]

\* the context objects: the thread's own current context, a Context the
\* caller built for the Stack, and the copy localcontext makes
ContextIds == {"ambient", "own", "local"}

(***************************************************************************)
(* CommandSequence.__init__ / tokenise (lines 91-113), one token a step.   *)
(***************************************************************************)
\* the token tokenise yields at str_position when entry i is the one chosen
Token(text, position, commandList, i) ==
    LET s == Suffix(text, position + 1)
    IN  [pos |-> position,
         text |-> SubSeq(s, 1, Match(commandList[i].regex, s)),
         func |-> commandList[i].func]

\* a tokeniser that binds the entry with the longest match at the offset
tokenise_choice_longest(commandList, s) ==
    LET matching == {i \in 1..Len(commandList) : Match(commandList[i].regex, s) >= 0}
    IN  IF matching = {} THEN 0
        ELSE CHOOSE i \in matching :
                \A j \in matching :
                    \/ Match(commandList[j].regex, s) < Match(commandList[i].regex, s)
                    \/ Match(commandList[j].regex, s) = Match(commandList[i].regex, s)
                       /\ i <= j

\* which entry the for loop of tokenise binds at the offset (0: none)
tokenise_choice(commandList, s) == FirstMatch(commandList, s)

\* a tokeniser that skips the character behind every match
TokeniseMatch_skipping ==
    /\ pc = "tokenise"
    /\ str_position < Len(cmd_text)
    /\ LET i == tokenise_choice(_registered_commands, Suffix(cmd_text, str_position + 1))
       IN  /\ i # 0
           /\ LET t == Token(cmd_text, str_position, _registered_commands, i)
              IN  /\ tokens' = Append(tokens, t)
                  /\ str_position' = str_position + Len(t.text) + 1
    /\ UNCHANGED << _registered_commands, cmd_text, commands, _stack, ctxVars,
                    pc, phase, ip, exc, out, ret, runs, histVars >>

\* a match: yield the token, advance by match.end()
TokeniseMatch ==
    /\ pc = "tokenise"
    /\ str_position < Len(cmd_text)
    /\ LET i == tokenise_choice(_registered_commands, Suffix(cmd_text, str_position + 1))
       IN  /\ i # 0
           /\ LET t == Token(cmd_text, str_position, _registered_commands, i)
              IN  /\ tokens' = Append(tokens, t)
                  /\ str_position' = str_position + Len(t.text)
    /\ UNCHANGED << _registered_commands, cmd_text, commands, _stack, ctxVars,
                    pc, phase, ip, exc, out, ret, runs, histVars >>

\* a tokeniser that reports how much text is left, not where it stopped
TokeniseFail_remaining ==
    /\ pc = "tokenise"
    /\ str_position < Len(cmd_text)
    /\ tokenise_choice(_registered_commands, Suffix(cmd_text, str_position + 1)) = 0
    /\ pc' = "raised"
    /\ exc' = [kind |-> "UnknownCommandError", arg |-> Len(cmd_text) - str_position]
    /\ UNCHANGED << _registered_commands, parseVars, _stack, ctxVars, phase, ip,
                    out, ret, runs, histVars >>

\* no entry matches: raise UnknownCommandError(str_position)
TokeniseFail ==
    /\ pc = "tokenise"
    /\ str_position < Len(cmd_text)
    /\ tokenise_choice(_registered_commands, Suffix(cmd_text, str_position + 1)) = 0
    /\ pc' = "raised"
    /\ exc' = [kind |-> "UnknownCommandError", arg |-> str_position]
    /\ UNCHANGED << _registered_commands, parseVars, _stack, ctxVars, phase, ip,
                    out, ret, runs, histVars >>

\* a constructor that takes the tokens found so far for the whole program
TokeniseDone_early ==
    /\ pc = "tokenise"
    /\ commands' = [i \in 1..Len(tokens) |->
                       [text |-> tokens[i].text, func |-> tokens[i].func]]
    /\ pc' = "constructed"
    /\ UNCHANGED << _registered_commands, cmd_text, str_position, tokens, _stack,
                    ctxVars, phase, ip, exc, out, ret, runs, histVars >>

\* the generator is exhausted: self.commands = [(m.group(0), f) ...]
TokeniseDone ==
    /\ pc = "tokenise"
    /\ str_position >= Len(cmd_text)
    /\ commands' = [i \in 1..Len(tokens) |->
                       [text |-> tokens[i].text, func |-> tokens[i].func]]
    /\ pc' = "constructed"
    /\ UNCHANGED << _registered_commands, cmd_text, str_position, tokens, _stack,
                    ctxVars, phase, ip, exc, out, ret, runs, histVars >>

(***************************************************************************)
(* Stack.run_commands (lines 77-84).                                       *)
(***************************************************************************)
\* CommandSequence.partial_commands: ft.partial(func, text) for every
\* (text, func) of self.commands, in order; index names the token
partial_commands(cmds) ==
    [i \in 1..Len(cmds) |-> [func |-> cmds[i].func, text |-> cmds[i].text, index |-> i]]

\* a context manager that makes ctx itself current, not a copy of it
localcontext_enter_shared(ctxs, cur, ctx) ==
    [contexts |-> ctxs, current |-> ctx, saved |-> cur]

\* decimal.localcontext(ctx).__enter__: a copy of ctx becomes the current
\* context and the context that was current is remembered
localcontext_enter(ctxs, cur, ctx) ==
    [contexts |-> [ctxs EXCEPT !["local"] = ctxs[ctx]],
     current |-> "local",
     saved |-> cur]

\* decimal.localcontext(ctx).__exit__: the remembered context is current again
localcontext_exit(cur, sav) == sav

\* a run_commands without its except clause
run_commands_raise_unconverted(kind) == kind

\* the except clause of run_commands: IndexError becomes EmptyStackError,
\* every other exception propagates as it is
run_commands_raise(kind) == IF kind = "IndexError" THEN "EmptyStackError" ELSE kind

\* the machine a handler called now works on
Machine == [stack |-> _stack, prec |-> contexts[current], out |-> out, err |-> ""]

\* func(self) for the next partial command
run_commands_step(partials, i, m) == Call(partials[i].func, partials[i].text, m)

\* a loop that goes on to the next command whatever the last one did
run_commands_continues_always(err) == TRUE

\* whether the for loop of run_commands goes on to the next partial command
\* after one that ended with err
run_commands_continues(err) == err = ""

\* the last-k history after the command at i has run successfully
LastKAfter(partials, i, m, r) ==
    IF partials[i].func # "set_precision" THEN lastk
    ELSE [set |-> r.prec,
          literal |-> IF i > 1 /\ partials[i - 1].func = "constant"
                         /\ \A j \in 1..Len(partials[i - 1].text) :
                                partials[i - 1].text[j] \in Digits
                      THEN DigitsValue(partials[i - 1].text, 0)
                      ELSE -1,
          readAt |-> m.prec,
          below |-> prev]

Enter ==
    LET c == localcontext_enter(contexts, current, _context)
    IN  /\ contexts' = c.contexts
        /\ current' = c.current
        /\ saved' = c.saved
        /\ entry' = [current |-> contexts[current], own |-> contexts[_context]]
        /\ ip' = 1
        /\ calls' = <<>>
        /\ lastk' = NoK
        /\ prev' = _stack
        /\ runs' = runs + 1
        /\ exc' = NoExc
        /\ pc' = "run"

\* with decimal.localcontext(self._context): entered from a fresh program
RunEnter ==
    /\ pc = "constructed"
    /\ Enter
    /\ UNCHANGED << _registered_commands, parseVars, _stack, _context, phase,
                    out, ret, pushed, popped, edits >>

\* one handler call that returns
RunStepOk ==
    /\ pc = "run"
    /\ ip <= Len(partial_commands(commands))
    /\ LET r == run_commands_step(partial_commands(commands), ip, Machine)
       IN  /\ r.err = ""
           /\ _stack' = r.stack
           /\ contexts' = [contexts EXCEPT ![current] = r.prec]
           /\ out' = r.out
           /\ lastk' = LastKAfter(partial_commands(commands), ip, Machine, r)
    /\ calls' = Append(calls, partial_commands(commands)[ip].index)
    /\ prev' = _stack
    /\ ip' = ip + 1
    /\ UNCHANGED << _registered_commands, parseVars, _context, current, saved,
                    pc, phase, exc, ret, runs, entry, pushed, popped, edits >>

\* one handler call that raises: the exception leaves the with block, which
\* restores the context, and reaches the caller of run_commands
RunStepRaise ==
    /\ pc = "run"
    /\ ip <= Len(partial_commands(commands))
    /\ LET r == run_commands_step(partial_commands(commands), ip, Machine)
       IN  /\ r.err # ""
           /\ _stack' = r.stack
           /\ contexts' = [contexts EXCEPT ![current] = r.prec]
           /\ out' = r.out
           /\ exc' = [kind |-> run_commands_raise(r.err), arg |-> ip]
           /\ IF run_commands_continues(r.err)
              THEN /\ ip' = ip + 1
                   /\ UNCHANGED << pc, current >>
              ELSE /\ current' = localcontext_exit(current, saved)
                   /\ pc' = "raised"
                   /\ ip' = ip
    /\ calls' = Append(calls, partial_commands(commands)[ip].index)
    /\ prev' = _stack
    /\ UNCHANGED << _registered_commands, parseVars, _context, saved, phase,
                    ret, runs, entry, lastk, pushed, popped, edits >>

\* the partial commands are exhausted: the with block ends
RunExit ==
    /\ pc = "run"
    /\ ip > Len(partial_commands(commands))
    /\ current' = localcontext_exit(current, saved)
    /\ pc' = "returned"
    /\ UNCHANGED << _registered_commands, parseVars, _stack, _context, contexts,
                    saved, phase, ip, exc, out, ret, runs, histVars >>

(***************************************************************************)
(* main() (lines 279-297): parse standard input, run it on a new Stack     *)
(* whose context is decimal.Context(Emax=100000), dump the stack.          *)
(***************************************************************************)
\* the state shared by every initial state
InitCommon ==
    /\ _registered_commands = BuiltinCommands
    /\ str_position = 0
    /\ tokens = <<>>
    /\ commands = <<>>
    /\ _stack = <<>>
    /\ current = "ambient"
    /\ saved = "ambient"
    /\ ip = 0
    /\ exc = NoExc
    /\ out = <<>>
    /\ ret = -1
    /\ runs = 0
    /\ calls = <<>>
    /\ entry = NoEntry
    /\ lastk = NoK
    /\ prev = <<>>
    /\ edits = 0
    /\ pushed = <<>>
    /\ popped = <<>>

\* cmds = CommandSequence(sys.stdin.read()) is about to tokenise
Init ==
    /\ InitCommon
    /\ cmd_text \in Texts(MainAlphabet, MaxLen)
    /\ _context = "own"
    /\ contexts = [c \in ContextIds |-> DefaultPrec]
    /\ pc = "tokenise"
    /\ phase = "program"

\* except UnknownCommandError: log_error('unknown command', err); return 1
MainUnknownCommand ==
    /\ pc = "raised"
    /\ phase = "program"
    /\ exc.kind = "UnknownCommandError"
    /\ ret' = 1
    /\ pc' = "exit"
    /\ UNCHANGED << _registered_commands, parseVars, _stack, ctxVars, phase, ip,
                    exc, out, runs, histVars >>

\* a main that has one exit code for both errors
MainEmptyStack_one ==
    /\ pc = "raised"
    /\ phase = "program"
    /\ exc.kind = "EmptyStackError"
    /\ ret' = 1
    /\ pc' = "exit"
    /\ UNCHANGED << _registered_commands, parseVars, _stack, ctxVars, phase, ip,
                    exc, out, runs, histVars >>

\* except EmptyStackError: log_error('empty stack', err); return 2
MainEmptyStack ==
    /\ pc = "raised"
    /\ phase = "program"
    /\ exc.kind = "EmptyStackError"
    /\ ret' = 2
    /\ pc' = "exit"
    /\ UNCHANGED << _registered_commands, parseVars, _stack, ctxVars, phase, ip,
                    exc, out, runs, histVars >>

\* any other exception is caught nowhere: main does not return
MainUncaught ==
    /\ pc = "raised"
    /\ \/ phase = "dump"
       \/ exc.kind \notin {"UnknownCommandError", "EmptyStackError"}
    /\ pc' = "crashed"
    /\ UNCHANGED << _registered_commands, parseVars, _stack, ctxVars, phase, ip,
                    exc, out, ret, runs, histVars >>

\* the program ran: stack.run_commands(CommandSequence('f')) comes next
MainDump ==
    /\ pc = "returned"
    /\ phase = "program"
    /\ cmd_text' = <<"f">>
    /\ str_position' = 0
    /\ tokens' = <<>>
    /\ commands' = <<>>
    /\ phase' = "dump"
    /\ pc' = "tokenise"
    /\ UNCHANGED << _registered_commands, _stack, ctxVars, ip, exc, out, ret,
                    runs, histVars >>

\* return 0
MainReturn ==
    /\ pc = "returned"
    /\ phase = "dump"
    /\ ret' = 0
    /\ pc' = "exit"
    /\ UNCHANGED << _registered_commands, parseVars, _stack, ctxVars, phase, ip,
                    exc, out, runs, histVars >>

Next ==
    \/ TokeniseMatch
    \/ TokeniseFail
    \/ TokeniseDone
    \/ MainUnknownCommand
    \/ RunEnter
    \/ RunStepOk
    \/ RunStepRaise
    \/ RunExit
    \/ MainEmptyStack
    \/ MainUncaught
    \/ MainDump
    \/ MainReturn

Spec == Init /\ [][Next]_vars

\* no explored run reaches an operation this model does not compute
NoUnmodelled == exc.kind # "Unmodelled"

(***************************************************************************)
(* A caller of the library: it builds a Stack, with the default context    *)
(* argument (the context object that was current at import) or with a      *)
(* Context of its own, calls push, pop and pop_many on it, then parses a   *)
(* program and runs it on that Stack, possibly more than once (as the      *)
(* front end of src/ui.py runs one Stack again and again).                 *)
(***************************************************************************)
\* the values the caller pushes
LibValues == {Dec(0, 7, 0), Dec(0, 8, 0)}
\* the precisions of the Context objects the caller builds
LibPrecisions == {1}
\* the programs the caller runs
LibTexts == Texts(PrecisionAlphabet, MaxLibLen) \cup Texts(RotateAlphabet, MaxLibLen)

InitLib ==
    /\ InitCommon
    /\ cmd_text = <<>>
    /\ pc = "api"
    /\ phase = "push"
    /\ \/ /\ _context = "ambient"
          /\ contexts = [c \in ContextIds |-> DefaultPrec]
       \/ /\ _context = "own"
          /\ \E p \in LibPrecisions :
                contexts = [c \in ContextIds |-> IF c = "own" THEN p ELSE DefaultPrec]

\* stack.push(*values), with one or two values
ApiPush ==
    /\ pc = "api"
    /\ phase = "push"
    /\ \E n \in 1..2 : \E values \in [1..n -> LibValues] :
          /\ Len(pushed) + Len(values) <= MaxDepth
          /\ _stack' = push(_stack, values)
          /\ pushed' = pushed \o values
    /\ UNCHANGED << _registered_commands, parseVars, ctxVars, pc, phase, ip, exc,
                    out, ret, runs, calls, entry, lastk, prev, popped, edits >>

\* stack.pop(), called by the caller itself
ApiPop ==
    /\ pc = "api"
    /\ LET p == pop(_stack)
       IN  /\ _stack' = p.stack
           /\ IF p.err # ""
              THEN /\ exc' = [kind |-> p.err, arg |-> 0]
                   /\ pc' = "raised"
                   /\ UNCHANGED << popped, phase >>
              ELSE /\ popped' = Append(popped, p.val)
                   /\ phase' = "pop"
                   /\ UNCHANGED << exc, pc >>
    /\ UNCHANGED << _registered_commands, parseVars, ctxVars, ip, out, ret, runs,
                    calls, entry, lastk, prev, pushed, edits >>

\* stack.pop_many(num), called by the caller itself
ApiPopMany ==
    /\ pc = "api"
    /\ \E num \in 0..(MaxDepth + 1) :
          LET p == pop_many(_stack, num)
          IN  /\ _stack' = p.stack
              /\ IF p.err # ""
                 THEN /\ exc' = [kind |-> p.err, arg |-> 0]
                      /\ pc' = "raised"
                      /\ UNCHANGED << popped, phase >>
                 ELSE /\ popped' = popped \o p.vals
                      /\ phase' = "pop"
                      /\ UNCHANGED << exc, pc >>
    /\ UNCHANGED << _registered_commands, parseVars, ctxVars, ip, out, ret, runs,
                    calls, entry, lastk, prev, pushed, edits >>

\* cmds = CommandSequence(text) is about to tokenise
LibConstruct ==
    /\ pc = "api"
    /\ cmd_text' \in LibTexts
    /\ pc' = "tokenise"
    /\ phase' = "program"
    /\ pushed' = <<>>
    /\ popped' = <<>>
    /\ UNCHANGED << _registered_commands, str_position, tokens, commands, _stack,
                    ctxVars, ip, exc, out, ret, runs, calls, entry, lastk, prev,
                    edits >>

\* stack.run_commands(cmds) once more, after a run that returned or raised
LibRerun ==
    /\ pc \in {"returned", "raised"}
    /\ runs >= 1
    /\ runs < MaxRuns
    /\ Enter
    /\ UNCHANGED << _registered_commands, parseVars, _stack, _context, phase,
                    out, ret, pushed, popped, edits >>

\* every character of LibTexts is a command, so tokenise never fails here
NextLib ==
    \/ ApiPush
    \/ ApiPop
    \/ ApiPopMany
    \/ LibConstruct
    \/ TokeniseMatch
    \/ TokeniseDone
    \/ RunEnter
    \/ RunStepOk
    \/ RunStepRaise
    \/ RunExit
    \/ LibRerun

SpecLib == InitLib /\ [][NextLib]_vars

(***************************************************************************)
(* A caller that registers further commands (register_command, lines       *)
(* 127-134) before it parses a text.                                       *)
(***************************************************************************)
\* the (regex, function) pairs the caller may register
ExtraCommands ==
    { Entry(" +", "comment"), Entry("f", "clear"), Entry("[?1]+", "whitespace") }

\* the texts the caller parses
RegTexts == Texts(RegAlphabet, MaxRegLen)

InitReg ==
    /\ InitCommon
    /\ cmd_text = <<>>
    /\ pc = "register"
    /\ phase = "program"
    /\ _context = "ambient"
    /\ contexts = [c \in ContextIds |-> DefaultPrec]

\* CommandSequence.register_command(regex, function)
RegisterCommand ==
    /\ pc = "register"
    /\ Len(_registered_commands) < Len(BuiltinCommands) + MaxExtra
    /\ \E e \in ExtraCommands :
          _registered_commands' =
              register_command_append(_registered_commands, e.regex, e.func)
    /\ UNCHANGED << parseVars, _stack, ctxVars, pc, phase, ip, exc, out, ret,
                    runs, histVars >>

\* CommandSequence(text) is about to tokenise
RegConstruct ==
    /\ pc = "register"
    /\ cmd_text' \in RegTexts
    /\ pc' = "tokenise"
    /\ UNCHANGED << _registered_commands, str_position, tokens, commands, _stack,
                    ctxVars, phase, ip, exc, out, ret, runs, histVars >>

NextReg ==
    \/ RegisterCommand
    \/ RegConstruct
    \/ TokeniseMatch
    \/ TokeniseFail
    \/ TokeniseDone

SpecReg == InitReg /\ [][NextReg]_vars

(***************************************************************************)
(* CommandSequence(text) with the built-in commands only.  tokenise is     *)
(* straight-line code of one thread: once the constructor is called, the   *)
(* while loop takes its next step for as long as it has one.               *)
(***************************************************************************)
\* the texts the caller parses
TokTexts == Texts(TokAlphabet, MaxTokLen)

\* CommandSequence(text) is about to tokenise
TokConstruct ==
    /\ pc = "register"
    /\ cmd_text' \in TokTexts
    /\ pc' = "tokenise"
    /\ UNCHANGED << _registered_commands, str_position, tokens, commands, _stack,
                    ctxVars, phase, ip, exc, out, ret, runs, histVars >>

Tokenise == TokeniseMatch \/ TokeniseFail \/ TokeniseDone

NextTok ==
    \/ TokConstruct
    \/ TokeniseMatch
    \/ TokeniseFail
    \/ TokeniseDone

SpecTok == InitReg /\ [][NextTok]_vars /\ WF_vars(Tokenise)

(***************************************************************************)
(* A caller that pushes distinct values and runs a rotation by a count     *)
(* followed by the rotation by the negated count, in either order.         *)
(***************************************************************************)
\* the values the caller may push
RotValues == { Dec(0, 6 + i, 0) : i \in 1..MaxRotDepth }
\* the stacks the caller builds: distinct values, one to MaxRotDepth deep
RotStacks ==
    { st \in UNION { [1..d -> RotValues] : d \in 1..MaxRotDepth } :
          \A i, j \in 1..Len(st) : i # j => st[i] # st[j] }
\* the decimal digit of n
DigitChar(n) == CHOOSE c \in Digits : DigitValue(c) = n
\* `n R _n R` and `_n R n R`
RotTexts ==
    UNION { { << DigitChar(n), "R", "_", DigitChar(n), "R" >>,
              << "_", DigitChar(n), "R", DigitChar(n), "R" >> } :
            n \in 0..MaxRotCount }

InitRot ==
    /\ InitCommon
    /\ cmd_text \in RotTexts
    /\ pc = "tokenise"
    /\ phase = "program"
    /\ _context = "ambient"
    /\ contexts = [c \in ContextIds |-> DefaultPrec]

\* stack.push(*values) before the run
RotPush ==
    /\ pc = "constructed"
    /\ _stack = <<>>
    /\ pushed = <<>>
    /\ \E st \in RotStacks :
          /\ _stack' = push(_stack, st)
          /\ pushed' = st
    /\ UNCHANGED << _registered_commands, parseVars, ctxVars, pc, phase, ip, exc,
                    out, ret, runs, calls, entry, lastk, prev, popped, edits >>

\* stack.run_commands(cmds) on the stack the caller built
RotRun ==
    /\ pushed # <<>>
    /\ RunEnter

NextRot ==
    \/ TokeniseMatch
    \/ TokeniseDone
    \/ RotPush
    \/ RotRun
    \/ RunStepOk
    \/ RunStepRaise
    \/ RunExit

SpecRot == InitRot /\ [][NextRot]_vars

(***************************************************************************)
(* main() given arithmetic programs: two literals and a binary operator,   *)
(* a literal and k, programs that mix the kinds of value the handlers      *)
(* push, the two worked examples of the documentation, and one text each   *)
(* that fails to tokenise and that underflows.                             *)
(***************************************************************************)
\* the literals of the programs
Literals == { <<"0">>, <<"1">>, <<"2">>, <<"3">>, <<"6">>, <<"_", "2">> }
\* the commands that take two numbers
BinaryOperators == {"+", "-", "*", "/", "^", "%", "~"}
\* what precedes the operands: nothing, or a value that stays below them
Below == { <<>>, <<"7", " ">> }
\* what follows the command: nothing, or a command that prints
After == { <<>>, <<"f">> }

\* whether this model computes the command o on the literals a and b
Computes(a, b, o) ==
    LET x == create_decimal(ReplaceUnderscore(a), DefaultPrec).val
        y == create_decimal(ReplaceUnderscore(b), DefaultPrec).val
        m == [stack |-> <<x, y>>, prec |-> DefaultPrec, out |-> <<>>, err |-> ""]
        func == BuiltinCommands[FirstMatch(BuiltinCommands, <<o>>)].func
    IN  Call(func, <<o>>, m).err # "Unmodelled"

BinaryPrograms ==
    { u \o a \o <<" ">> \o b \o <<o>> \o t :
          u \in Below, t \in After,
          <<a, b, o>> \in { abo \in Literals \X Literals \X BinaryOperators :
                                Computes(abo[1], abo[2], abo[3]) } }

PrecisionPrograms ==
    { u \o p \o <<"k">> \o t :
          u \in Below, p \in Literals, t \in After \cup { <<"K">> } }

TypePrograms ==
    { <<"z">>, <<"K">>, <<"I">>, <<"O">>, <<"4", "v">>, <<"z", "v">>,
      <<"K", "v">>, <<"1", "z", "v">>, <<"z", "1", "+">>, <<"K", "1", "+">>,
      <<"K", "z", "+">>, <<"I", "1", "+">>, <<"[", "a", "]">>,
      <<"[", "a", "]", "2", "*">>, <<"2", "[", "a", "]", "*">>,
      <<"[", "a", "]", "2", "*", "2", "*">>,
      <<"[", "a", "]", "z", "*">>, <<"[", "a", "]", "z", "*", "z", "*">> }

Example14 ==
    << "5", " ", "1", " ", "2", " ", "+", " ", "4", " ", "*", " ", "+", " ",
       "3", " ", "-" >>
Example7 == << "3", " ", "4", " ", "+" >>

ArithTexts ==
    BinaryPrograms \cup PrecisionPrograms \cup TypePrograms
        \cup { Example14, Example7, <<"1", " ", "?">>, <<"1", "+">> }

InitArith ==
    /\ InitCommon
    /\ cmd_text \in ArithTexts
    /\ _context = "own"
    /\ contexts = [c \in ContextIds |-> DefaultPrec]
    /\ pc = "tokenise"
    /\ phase = "program"

SpecArith == InitArith /\ [][Next]_vars

(***************************************************************************)
(* The front end, src/ui.py: ApplicationWindow._on_code_changed (lines     *)
(* 54-64) runs on every change of the text buffer, on one DCStack built    *)
(* with the default context.  DCStack (lines 67-92) keeps each value in a  *)
(* row widget and hands the value back on pop, so the handlers see the     *)
(* values a plain Stack would give them.                                   *)
(***************************************************************************)
UiTexts == Texts(UiAlphabet, MaxUiLen)

\* ApplicationWindow.__init__: the window with its empty DCStack
InitUi ==
    /\ InitCommon
    /\ cmd_text = <<>>
    /\ pc = "idle"
    /\ phase = "edit"
    /\ _context = "ambient"
    /\ contexts = [c \in ContextIds |-> DefaultPrec]

\* the buffer changed: _on_code_changed starts on the buffer's whole text
\* with dcparse.CommandSequence(widget.get_text(...))
UiEdit ==
    /\ pc \in {"idle", "escaped"}
    /\ edits < MaxEdits
    /\ edits' = edits + 1
    /\ cmd_text' \in UiTexts
    /\ str_position' = 0
    /\ tokens' = <<>>
    /\ commands' = <<>>
    /\ exc' = NoExc
    /\ ip' = 0
    /\ calls' = <<>>
    /\ lastk' = NoK
    /\ prev' = <<>>
    /\ pc' = "tokenise"
    /\ UNCHANGED << _registered_commands, _stack, ctxVars, phase, out, ret, runs,
                    entry, pushed, popped >>

\* self.stack.clear()
UiClear ==
    /\ pc = "constructed"
    /\ _stack' = Stack_clear(_stack)
    /\ pc' = "cleared"
    /\ UNCHANGED << _registered_commands, parseVars, ctxVars, phase, ip, exc, out,
                    ret, runs, histVars >>

\* try: self.stack.run_commands(cmds)
UiRun ==
    /\ pc = "cleared"
    /\ Enter
    /\ UNCHANGED << _registered_commands, parseVars, _stack, _context, phase,
                    out, ret, pushed, popped, edits >>

\* run_commands returned: the handler ends
UiReturn ==
    /\ pc = "returned"
    /\ pc' = "idle"
    /\ UNCHANGED << _registered_commands, parseVars, _stack, ctxVars, phase, ip,
                    exc, out, ret, runs, histVars >>

\* except dcparse.EmptyStackError as err: pass
UiEmptyStack ==
    /\ pc = "raised"
    /\ runs >= 1
    /\ ip >= 1
    /\ exc.kind = "EmptyStackError"
    /\ pc' = "idle"
    /\ UNCHANGED << _registered_commands, parseVars, _stack, ctxVars, phase, ip,
                    exc, out, ret, runs, histVars >>

\* an exception raised outside the try statement, or one that no except
\* clause of it names, leaves _on_code_changed
UiEscape ==
    /\ pc = "raised"
    /\ \/ ip = 0
       \/ exc.kind \notin {"EmptyStackError", "UnknownCommandError"}
    /\ pc' = "escaped"
    /\ UNCHANGED << _registered_commands, parseVars, _stack, ctxVars, phase, ip,
                    exc, out, ret, runs, histVars >>

NextUi ==
    \/ UiEdit
    \/ TokeniseMatch
    \/ TokeniseFail
    \/ TokeniseDone
    \/ UiClear
    \/ UiRun
    \/ RunStepOk
    \/ RunStepRaise
    \/ RunExit
    \/ UiReturn
    \/ UiEmptyStack
    \/ UiEscape

SpecUi == InitUi /\ [][NextUi]_vars

(***************************************************************************)
(* Properties of the parser.                                               *)
(***************************************************************************)
\* the tokens split the text from offset 0 up to offset end, each one a
\* match of a registered pattern bound to that pattern's handler
TokensTile(end) ==
    /\ \A i \in 1..Len(tokens) :
          /\ tokens[i].pos = (IF i = 1 THEN 0
                              ELSE tokens[i - 1].pos + Len(tokens[i - 1].text))
          /\ tokens[i].text =
                 SubSeq(cmd_text, tokens[i].pos + 1, tokens[i].pos + Len(tokens[i].text))
          /\ \E j \in 1..Len(_registered_commands) :
                /\ _registered_commands[j].func = tokens[i].func
                /\ Match(_registered_commands[j].regex, Suffix(cmd_text, tokens[i].pos + 1))
                       = Len(tokens[i].text)
    /\ end = (IF tokens = <<>> THEN 0
              ELSE tokens[Len(tokens)].pos + Len(tokens[Len(tokens)].text))

\* C1: parsing and execution are two phases. While main's program text is
\* being tokenised, and when its tokenisation has failed, no handler has
\* been called, the stack is untouched and nothing is printed; whenever
\* run_commands is running, the whole text was tokenised before and the
\* commands it runs are exactly the tokens of that text.
C1_TwoPhase ==
    /\ (phase = "program" /\ (pc = "tokenise" \/ exc.kind = "UnknownCommandError"))
          => /\ runs = 0
             /\ calls = <<>>
             /\ _stack = <<>>
             /\ out = <<>>
    /\ pc = "run"
          => /\ str_position = Len(cmd_text)
             /\ TokensTile(Len(cmd_text))
             /\ Len(commands) = Len(tokens)
             /\ \A i \in 1..Len(tokens) :
                   /\ commands[i].text = tokens[i].text
                   /\ commands[i].func = tokens[i].func

\* tokenisation failed behind a literal and a print command ("1f?")
C1_Witness ==
    /\ phase = "program"
    /\ exc.kind = "UnknownCommandError"
    /\ \E i, j \in 1..Len(tokens) :
          /\ i < j
          /\ tokens[i].func = "constant"
          /\ tokens[j].func = "print_stack"

\* C2: when tokenisation fails, the offset reported is in the text, no
\* registered pattern matches there, and the text before it is split into
\* tokens end to end, each matched by a registered pattern (so no earlier
\* scan position is unmatched and no later one is reported).
C2_UnknownCommandOffset ==
    exc.kind = "UnknownCommandError"
       => /\ exc.arg \in 0..(Len(cmd_text) - 1)
          /\ exc.arg = str_position
          /\ \A j \in 1..Len(_registered_commands) :
                Match(_registered_commands[j].regex, Suffix(cmd_text, exc.arg + 1)) < 0
          /\ TokensTile(exc.arg)

\* tokenisation failed behind two or more tokens, one longer than a character
C2_Witness ==
    /\ exc.kind = "UnknownCommandError"
    /\ Len(tokens) >= 2
    /\ \E i \in 1..Len(tokens) : Len(tokens[i].text) >= 2
    /\ exc.arg >= 3

\* C3: at every offset the token is bound to the first entry of the registry,
\* in registration order, whose pattern matches there, with that entry's
\* match length, whatever later entries match (even longer).
C3_FirstMatchWins ==
    [][(pc = "tokenise" /\ tokens' # tokens)
          => LET s == Suffix(cmd_text, str_position + 1)
                 t == tokens'[Len(tokens')]
             IN  /\ tokens' = Append(tokens, t)
                 /\ t.pos = str_position
                 /\ \E i \in 1..Len(_registered_commands) :
                       /\ \A j \in 1..(i - 1) :
                             Match(_registered_commands[j].regex, s) < 0
                       /\ Match(_registered_commands[i].regex, s) = Len(t.text)
                       /\ _registered_commands[i].func = t.func
                       /\ t.text = SubSeq(s, 1, Len(t.text))
                 /\ str_position' = str_position + Len(t.text)]_vars

\* a token was bound to an earlier entry although an entry registered after
\* the built-in ones matches more text at the same offset
C3_Witness ==
    /\ Len(_registered_commands) > Len(BuiltinCommands)
    /\ \E k \in 1..Len(tokens) :
          \E j \in (Len(BuiltinCommands) + 1)..Len(_registered_commands) :
             /\ _registered_commands[j].func # tokens[k].func
             /\ Match(_registered_commands[j].regex, Suffix(cmd_text, tokens[k].pos + 1))
                    > Len(tokens[k].text)

(***************************************************************************)
(* Properties of the Stack and of run_commands.                            *)
(***************************************************************************)
\* how many values the handler pops before it does anything else
Operands(func) ==
    CASE func \in {"set_precision", "rotate", "duplicate", "square_root"} -> 1
      [] func \in {"swap", "common_numerical", "remainder", "div_mod"} -> 2
      [] func = "mod_exponentiation" -> 3
      [] OTHER -> 0

\* run_commands is about to call a handler that needs more values than the
\* stack holds
Underflows ==
    /\ pc = "run"
    /\ ip <= Len(commands)
    /\ Operands(commands[ip].func) > Len(_stack)

\* C4: the Stack is last-in first-out. After the caller's pushes, whatever
\* its pop() and pop_many(k) calls have returned so far, in the order they
\* returned it, is the reverse of the end of the pushed sequence, unchanged,
\* and the stack holds the rest of the pushed sequence in its original order.
C4_LIFO ==
    pc = "api" => _stack \o Reverse(popped) = pushed

\* two different values were pushed and both have been popped again
C4_Witness ==
    /\ pc = "api"
    /\ Len(pushed) = 2
    /\ pushed[1] # pushed[2]
    /\ popped = << pushed[2], pushed[1] >>
    /\ _stack = <<>>

\* C5 as stated: every pop of an empty stack, by a handler during a run or
\* by a direct call of pop() or pop_many(), is reported as EmptyStackError.
C5_Original ==
    [][(Underflows \/ (pc = "api" /\ pc' = "raised"))
          => exc'.kind = "EmptyStackError"]_vars

\* C5, amended: a handler that pops an empty stack during run_commands ends
\* the run with EmptyStackError for that command; a direct call of pop() or
\* pop_many() that runs out of values raises IndexError and leaves the
\* stack empty.
C5_EmptyPop ==
    [][/\ Underflows
          => /\ pc' = "raised"
             /\ exc' = [kind |-> "EmptyStackError", arg |-> ip]
       /\ (pc = "api" /\ pc' = "raised")
          => /\ exc'.kind = "IndexError"
             /\ _stack' = <<>>]_vars

\* a run ended with EmptyStackError at a handler that found too few values
C5_Witness ==
    /\ pc = "raised"
    /\ runs >= 1
    /\ exc.kind = "EmptyStackError"
    /\ Operands(commands[exc.arg].func) > Len(prev)

\* C6: handlers are called one at a time in token order; the first failure
\* ends the run, so no later token's handler is called; a run that returns
\* has called every token's handler exactly once.
C6_ProgramOrder ==
    /\ \A i \in 1..Len(calls) : calls[i] = i
    /\ pc = "run" => (Len(calls) = ip - 1 /\ Len(calls) <= Len(commands))
    /\ pc = "returned" => Len(calls) = Len(commands)
    /\ (runs >= 1 /\ exc.kind \notin {"", "UnknownCommandError"})
          => /\ pc \in {"raised", "exit", "crashed"}
             /\ Len(calls) = exc.arg

\* a run stopped at a failing handler with tokens left that were never run
C6_Witness ==
    /\ pc = "raised"
    /\ exc.kind = "EmptyStackError"
    /\ Len(calls) >= 2
    /\ Len(calls) < Len(commands)
    /\ \E i \in (Len(calls) + 1)..Len(commands) : commands[i].func = "print_stack"

\* C7: a handler that fails with EmptyStackError leaves the stack without
\* the values it had popped before it failed; nothing is put back and
\* nothing earlier is undone. A handler short of operands has popped all
\* there was; R has popped its count.
C7_NoRollback ==
    [][(pc = "run" /\ pc' = "raised" /\ exc'.kind = "EmptyStackError")
          => LET taken == IF commands[ip].func = "rotate" /\ _stack # <<>>
                          THEN 1 ELSE Len(_stack)
             IN  /\ _stack' = SubSeq(_stack, 1, Len(_stack) - taken)
                 /\ out' = out]_vars

\* | failed on a stack of two values and left none of them
C7_Witness ==
    /\ pc = "raised"
    /\ exc.kind = "EmptyStackError"
    /\ commands[exc.arg].func = "mod_exponentiation"
    /\ Len(prev) = 2
    /\ _stack = <<>>

(***************************************************************************)
(* Properties of the arithmetic context.                                   *)
(***************************************************************************)
\* C8: precision changes are scoped to one run_commands call. Every run
\* starts at the precision of the Stack's context; when the run has returned
\* or raised, the context that was current before is current again with the
\* precision it had, and the Stack's context has the precision it had, so a
\* later run on the same Stack sees no k of an earlier one.
C8_ContextScoped ==
    /\ contexts["ambient"] = DefaultPrec
    /\ contexts[_context] \in
           (IF _context = "ambient" THEN {DefaultPrec} ELSE LibPrecisions)
    /\ (pc = "run" /\ calls = <<>>) => contexts[current] = contexts[_context]
    /\ (pc \in {"returned", "raised"} /\ runs >= 1)
          => /\ current = "ambient"
             /\ contexts[current] = entry.current
             /\ contexts[_context] = entry.own

\* a second run on the same Stack has ended after a k that set a precision
\* other than that of the Stack's context
C8_Witness ==
    /\ pc \in {"returned", "raised"}
    /\ runs = 2
    /\ lastk.set # 0
    /\ lastk.set # contexts[_context]
    /\ contexts["local"] = lastk.set

\* K has just returned
KJustRan ==
    /\ pc = "run"
    /\ ip > 1
    /\ ip - 1 <= Len(commands)
    /\ commands[ip - 1].func = "get_precision"

\* the literal, k and K were three consecutive commands
LiteralThenKThenK ==
    /\ ip >= 4
    /\ commands[ip - 2].func = "set_precision"
    /\ commands[ip - 3].func = "constant"

\* C9 as stated: after `p k` with a literal p >= 1 and no other k since, K
\* pushes p, and after `p k K` the stack is otherwise as it was before p.
C9_Original ==
    (KJustRan /\ lastk.literal >= 1)
       => /\ _stack # <<>>
          /\ NumEq(_stack[Len(_stack)], lastk.literal)
          /\ LiteralThenKThenK => _stack = Append(lastk.below, _stack[Len(_stack)])

\* C9, amended: K pushes, as a Python int, the precision the last k of the
\* run set. After `p k` with a literal p >= 1 that precision is p rounded
\* half-even to the precision in force when p was read, which is p itself
\* when p has no more digits than that precision; after `p k K` the stack is
\* otherwise as it was before p.
C9_PrecisionRoundTrip ==
    (KJustRan /\ lastk.set # 0)
       => /\ _stack # <<>>
          /\ _stack[Len(_stack)] = PyInt(lastk.set)
          /\ lastk.literal >= 1
                => /\ lastk.set = ToInt(Fix(Dec(0, lastk.literal, 0), lastk.readAt))
                   /\ NumDigits(lastk.literal) <= lastk.readAt
                         => lastk.set = lastk.literal
          /\ (lastk.literal >= 1 /\ LiteralThenKThenK)
                => _stack = Append(lastk.below, PyInt(lastk.set))

\* K has pushed a precision that k took from a literal with more digits than
\* the precision in force, above a value that was on the stack before
C9_Witness ==
    /\ KJustRan
    /\ LiteralThenKThenK
    /\ lastk.literal >= 10
    /\ lastk.set # lastk.literal
    /\ Len(_stack) >= 2
    /\ _stack[Len(_stack)] = PyInt(lastk.set)

(***************************************************************************)
(* Properties of R.                                                        *)
(***************************************************************************)
\* C10 as stated: R with a literal count of 0, or of at least the depth
\* that remains once the count is popped, completes and leaves the
\* remaining stack as it was.
C10_Original ==
    [][(/\ pc = "run"
        /\ ip > 1
        /\ ip <= Len(commands)
        /\ commands[ip].func = "rotate"
        /\ commands[ip - 1].func = "constant"
        /\ _stack # <<>>
        /\ IsNumber(_stack[Len(_stack)])
        /\ LET n == ToInt(_stack[Len(_stack)])
           IN  n = 0 \/ n >= Len(_stack) - 1)
          => /\ pc' = "run"
             /\ exc' = exc
             /\ _stack' = SubSeq(_stack, 1, Len(_stack) - 1)]_vars

\* C11: a rotation by a negative count undoes the rotation by the positive
\* count of the same magnitude, in either order: after `n R _n R` or
\* `_n R n R` (n >= 1, depth >= 1) the stack is as it was. A single R with
\* count n on a remaining stack of depth d moves one element of the top
\* min(|n|, d) from one end of that group to the other (the bottom of the
\* group to the top for n >= 0, the top to the bottom for n < 0), keeps the
\* order of the others, and leaves what is below the group as it was.
C11_RotateInverse ==
    /\ [](pc = "returned" => _stack = pushed)
    /\ [][(/\ pc = "run"
           /\ ip <= Len(commands)
           /\ commands[ip].func = "rotate"
           /\ pc' = "run")
             => LET n == ToInt(_stack[Len(_stack)])
                    rest == SubSeq(_stack, 1, Len(_stack) - 1)
                    k == Min(Abs(n), Len(rest))
                    below == SubSeq(rest, 1, Len(rest) - k)
                    group == SubSeq(rest, Len(rest) - k + 1, Len(rest))
                IN  _stack' = below \o
                        (IF n >= 0
                         THEN Tail(group) \o << Head(group) >>
                         ELSE << group[k] >> \o SubSeq(group, 1, k - 1))]_vars

\* both rotations of a group of three or more values have run
C11_Witness ==
    /\ pc = "returned"
    /\ Len(pushed) >= 3
    /\ \E i \in 1..Len(commands) :
          /\ commands[i].func = "constant"
          /\ commands[i].text \in { <<"3">>, <<"_", "3">> }
    /\ _stack = pushed

(***************************************************************************)
(* Properties of the arithmetic commands.                                  *)
(***************************************************************************)
\* v is the result of a o b for integers a and b (a exact quotient for /)
IsResult(o, a, b, v) ==
    /\ IsNumber(v)
    /\ IsIntegral(v)
    /\ CASE o = "+" -> ToInt(v) = a + b
         [] o = "-" -> ToInt(v) = a - b
         [] o = "*" -> ToInt(v) = a * b
         [] o = "/" -> ToInt(v) * b = a
         [] o = "^" -> b >= 0 /\ ToInt(v) = IntPow(a, b)

\* run_commands is about to call the handler of one of + - * / ^ on a stack
\* whose two top values are integral Numbers
BinaryStep ==
    /\ pc = "run"
    /\ ip <= Len(commands)
    /\ commands[ip].func = "common_numerical"
    /\ Len(_stack) >= 2
    /\ \A i \in {Len(_stack) - 1, Len(_stack)} :
          IsNumber(_stack[i]) /\ IsIntegral(_stack[i])

\* C12: with a pushed before b (b on top), each of + - * / ^ removes those
\* two values and pushes a op b with a as the left operand, and leaves every
\* deeper value as it was; + - * always succeed on two Numbers. So
\* `5 1 2 + 4 * + 3 -` ends with the stack [14] and `3 4 +` with [7].
C12_OperandOrder ==
    /\ [][BinaryStep
            => LET d == Len(_stack)
                   a == ToInt(_stack[d - 1])
                   b == ToInt(_stack[d])
                   o == commands[ip].text[1]
               IN  /\ o \in {"+", "-", "*"} => pc' = "run"
                   /\ pc' = "run"
                         => /\ Len(_stack') = d - 1
                            /\ SubSeq(_stack', 1, d - 2) = SubSeq(_stack, 1, d - 2)
                            /\ IsResult(o, a, b, _stack'[d - 1])]_vars
    /\ []((pc = "returned" /\ phase = "program" /\ cmd_text = Example14)
             => _stack = << Dec(0, 14, 0) >>)
    /\ []((pc = "returned" /\ phase = "program" /\ cmd_text = Example7)
             => _stack = << Dec(0, 7, 0) >>)

\* `5 1 2 + 4 * + 3 -` has run to its end
C12_Witness ==
    /\ pc = "returned"
    /\ phase = "program"
    /\ cmd_text = Example14
    /\ Len(calls) = Len(commands)
    /\ _stack = << Dec(0, 14, 0) >>

\* run_commands is about to call /, % or ~ on two Numbers, the top one zero
ZeroDivisionStep ==
    /\ pc = "run"
    /\ ip <= Len(commands)
    /\ \/ commands[ip].func \in {"remainder", "div_mod"}
       \/ commands[ip].func = "common_numerical" /\ commands[ip].text = <<"/">>
    /\ Len(_stack) >= 2
    /\ IsNumber(_stack[Len(_stack) - 1])
    /\ IsNumber(_stack[Len(_stack)])
    /\ _stack[Len(_stack)].int = 0

\* run_commands is about to call k on a Number whose integer value is below 1
InvalidPrecisionStep ==
    /\ pc = "run"
    /\ ip <= Len(commands)
    /\ commands[ip].func = "set_precision"
    /\ _stack # <<>>
    /\ IsNumber(_stack[Len(_stack)])
    /\ ToInt(_stack[Len(_stack)]) < 1

\* an exception that is neither of the two conditions main reports
Fatal(kind) == kind \notin {"", "EmptyStackError", "UnknownCommandError", "Unmodelled"}

\* C13: a division, % or ~ by zero and a k with a precision below 1 end the
\* run at that command with an exception that is neither EmptyStackError
\* nor UnknownCommandError; the operands are gone and nothing is pushed in
\* their place, the precision is what it was, nothing is printed, and no
\* later command is called: main neither dumps the stack nor returns.
C13_NumericFatal ==
    /\ [][(ZeroDivisionStep \/ InvalidPrecisionStep)
            => /\ pc' = "raised"
               /\ exc'.arg = ip
               /\ Fatal(exc'.kind)
               /\ contexts' = contexts
               /\ out' = out
               /\ _stack' = SubSeq(_stack, 1,
                      Len(_stack) - (IF InvalidPrecisionStep THEN 1 ELSE 2))]_vars
    /\ []((pc \in {"raised", "crashed"} /\ Fatal(exc.kind))
             => /\ Len(calls) = exc.arg
                /\ phase = "program"
                /\ ret = -1)

\* a division by zero ended main with a value left below the operands and a
\* command left that was never called
C13_Witness ==
    /\ pc = "crashed"
    /\ exc.kind = "DivisionByZero"
    /\ Len(_stack) = 1
    /\ Len(calls) < Len(commands)
    /\ out = <<>>

(***************************************************************************)
(* Properties of main.                                                     *)
(***************************************************************************)
\* C14: main returns 1 exactly when tokenising the input failed, and then
\* nothing was executed; 2 exactly when the run raised EmptyStackError; 0
\* exactly when the whole program ran without an exception. The final dump
\* is made only after a program that ran to its end: it prints the stack
\* top first, if there is anything on it, and leaves the stack as it is.
C14_ExitCodes ==
    /\ [](/\ ret \in {-1, 0, 1, 2}
          /\ ret # -1 <=> pc = "exit"
          /\ ret = 1 <=> (pc = "exit" /\ exc.kind = "UnknownCommandError")
          /\ ret = 2 <=> (pc = "exit" /\ exc.kind = "EmptyStackError")
          /\ ret = 0 <=> (pc = "exit" /\ exc.kind = "")
          /\ ret = 1 => (runs = 0 /\ calls = <<>> /\ _stack = <<>> /\ out = <<>>)
          /\ ret = 0 => (phase = "dump" /\ runs = 2)
          /\ (ret \in {1, 2} \/ pc = "crashed") => phase = "program")
    /\ [][/\ (pc = "raised" /\ exc.kind = "UnknownCommandError") => ret' = 1
          /\ (pc = "raised" /\ exc.kind = "EmptyStackError") => ret' = 2
          /\ (pc = "returned" /\ phase = "dump") => ret' = 0
          /\ phase' # phase
                => /\ phase' = "dump"
                   /\ pc = "returned"
                   /\ exc.kind = ""
                   /\ Len(calls) = Len(commands)
          /\ (phase = "dump" /\ pc = "run" /\ ip <= Len(commands))
                => /\ _stack' = _stack
                   /\ out' = IF _stack = <<>> THEN out
                             ELSE Append(out, Reverse(_stack))
          /\ (phase = "dump" /\ ~(pc = "run" /\ ip <= Len(commands)))
                => (out' = out /\ _stack' = _stack)]_vars

\* main has returned 0 after a program that printed, and its dump of two
\* values, top first, is the last thing printed
C14_Witness ==
    /\ ret = 0
    /\ Len(_stack) = 2
    /\ _stack[1] # _stack[2]
    /\ Len(out) = 2
    /\ out[2] = << _stack[2], _stack[1] >>

(***************************************************************************)
(* Further properties of the parser.                                       *)
(***************************************************************************)
\* C15 as stated: the value UnknownCommandError carries measures the text
\* that was not consumed: it is the length of the input minus the offset at
\* which tokenising failed.
C15_Original ==
    exc.kind = "UnknownCommandError" => exc.arg = Len(cmd_text) - str_position

\* the text is an optional _, one or more digits and, optionally, a single .
\* followed by one or more digits
WellFormedLiteral(t) ==
    LET body == IF t # <<>> /\ t[1] = "_" THEN Tail(t) ELSE t
        dots == {i \in 1..Len(body) : body[i] = "."}
    IN  /\ body # <<>>
        /\ \A i \in 1..Len(body) : body[i] \in Digits \cup {"."}
        /\ body[1] \in Digits
        /\ Cardinality(dots) <= 1
        /\ Len(body) \notin dots

\* C16 as stated: every token bound to the handler of numeric literals is an
\* optional _, digits and optionally a single . and digits, and executing it
\* pushes exactly one Number, negative when the _ is there.
C16_Original ==
    /\ [](\A i \in 1..Len(tokens) :
             tokens[i].func = "constant" => WellFormedLiteral(tokens[i].text))
    /\ [][(pc = "run" /\ ip <= Len(commands) /\ commands[ip].func = "constant")
            => /\ pc' = "run"
               /\ Len(_stack') = Len(_stack) + 1
               /\ SubSeq(_stack', 1, Len(_stack)) = _stack
               /\ _stack'[Len(_stack')].t = "Decimal"
               /\ _stack'[Len(_stack')].sign = 1 <=> commands[ip].text[1] = "_"]_vars

(***************************************************************************)
(* Properties of the values on the stack.                                  *)
(***************************************************************************)
\* C17 as stated: every element of the stack is a Number (a decimal) or a
\* Text (a string that can be replicated); so v accepts what z, K, I or O
\* pushed, and * replicates a Text that is itself the result of replicating.
C17_Original ==
    /\ [](\A i \in 1..Len(_stack) :
             _stack[i].t \in {"Decimal", "DecimalMultipliableString"})
    /\ [][(/\ pc = "run"
           /\ ip > 1
           /\ ip <= Len(commands)
           /\ commands[ip].func = "square_root"
           /\ commands[ip - 1].func \in
                  {"stack_depth", "get_precision", "get_radix"}
           /\ _stack # <<>>)
             => exc'.kind # "AttributeError"]_vars
    /\ [][(/\ pc = "run"
           /\ ip <= Len(commands)
           /\ commands[ip].text = <<"*">>
           /\ Len(_stack) >= 2
           /\ IsString(_stack[Len(_stack) - 1])
           /\ _stack[Len(_stack)].t = "Decimal"
           /\ IsIntegral(_stack[Len(_stack)]))
             => (pc' = "run" /\ IsString(_stack'[Len(_stack')]))]_vars

(***************************************************************************)
(* Properties of the front end.                                            *)
(***************************************************************************)
\* C18 as stated: whatever the text of an edit, an unknown command or an
\* underflow in it is dealt with inside _on_code_changed: no error leaves
\* the handler, for any sequence of edits.
C18_Original ==
    pc # "escaped"

(***************************************************************************)
(* Properties of the token list as a whole.                                *)
(***************************************************************************)
RECURSIVE JoinTexts(_)
\* the matched texts of the tokens (or commands) joined in order
JoinTexts(toks) ==
    IF toks = <<>> THEN <<>> ELSE Head(toks).text \o JoinTexts(Tail(toks))

\* every token starts where the one before it ends, the first at offset 0
Contiguous ==
    \A i \in 1..Len(tokens) :
        tokens[i].pos = Len(JoinTexts(SubSeq(tokens, 1, i - 1)))

\* C19: when a text tokenises, its tokens are contiguous and the matched
\* texts of the commands, joined in order, are the text itself; when
\* tokenising fails, the matched texts yielded before the failure, joined in
\* order, are the prefix of the text that ends at the reported offset.
C19_TokensCoverText ==
    /\ pc = "constructed"
          => /\ Contiguous
             /\ JoinTexts(tokens) = cmd_text
             /\ JoinTexts(commands) = cmd_text
    /\ exc.kind = "UnknownCommandError"
          => /\ Contiguous
             /\ JoinTexts(tokens) = SubSeq(cmd_text, 1, exc.arg)

\* a text of three characters was split into a token of two characters and
\* a token of one, by a registry that holds a command of the caller
C19_Witness ==
    /\ pc = "constructed"
    /\ Len(_registered_commands) > Len(BuiltinCommands)
    /\ Len(cmd_text) = 3
    /\ Len(commands) = 2
    /\ \E i \in 1..2 : Len(commands[i].text) = 2

\* C20: with the built-in commands, every match consumes at least one
\* character, so every step of the scan moves the offset forward and never
\* past the end of the text; and tokenising a text always ends, with the
\* complete token list or with UnknownCommandError.
C20_TokeniseTerminates ==
    /\ [](str_position <= Len(cmd_text))
    /\ [][(pc = "tokenise" /\ pc' = "tokenise")
             => /\ tokens' = Append(tokens, tokens'[Len(tokens')])
                /\ Len(tokens'[Len(tokens')].text) >= 1
                /\ str_position' > str_position
                /\ str_position' <= Len(cmd_text)]_vars
    /\ (pc = "tokenise")
          ~> (\/ /\ pc = "constructed"
                 /\ str_position = Len(cmd_text)
                 /\ Len(commands) = Len(tokens)
              \/ /\ pc = "raised"
                 /\ exc.kind = "UnknownCommandError")

\* the scan ended after two or more steps, one of them over a comment of
\* more than one character
C20_Witness ==
    /\ _registered_commands = BuiltinCommands
    /\ pc \in {"constructed", "raised"}
    /\ Len(tokens) >= 2
    /\ \E i \in 1..Len(tokens) :
          /\ tokens[i].func = "comment"
          /\ Len(tokens[i].text) >= 2
====
